---------------------------- MODULE Spec2Model ----------------------------
(***************************************************************************)
(* State-machine model of the two batch jobs of cat-anomaly:               *)
(*   - the Usage Aggregator  (src/src/UsageStatisticsAggregator.ts)        *)
(*   - the Anomaly Detector  (src/src/index.ts)                            *)
(* together with the Event Source (src/src/RawEventGenerator.ts), the      *)
(* clock and the external resolution of anomalies.                         *)
(*                                                                         *)
(* Every `await` of a job is one step, so that other processes interleave  *)
(* exactly where the event loop and the store let them.                    *)
(*                                                                         *)
(* Numbers.  The code works on IEEE doubles; the model works on exact      *)
(* integers and fractions:                                                 *)
(*   hours          are counted in tenths of an hour (one log = 0.1 h),    *)
(*   fuelConsumed   in hundredths of a litre (hours * 5.5),                *)
(*   ratios         are fractions [n, d] compared by cross-multiplication, *)
(*   NaN/undefined  is the value NaN below, absorbed by NumAdd.            *)
(***************************************************************************)
EXTENDS Integers, Sequences, FiniteSets, TLC

VARIABLES
    now,            \* the wall clock, in hours since the start
    rawEventLog,    \* table RawEventLog: a sequence of rows, id = index
    lineItemUsage,  \* table LineItemUsage: a set of rows
    anomalyLog,     \* table AnomalyLog: a sequence of rows, id = index
    agg,            \* per invocation of processRawLogs: its locals and position
    det             \* per invocation of checkForAnomalies: its locals and position

vars == <<now, rawEventLog, lineItemUsage, anomalyLog, agg, det>>

---------------------------------------------------------------------------
(* Bounds of the model *)

MaxLogs == 2        \* telemetry records ever deposited
MaxTime == 1        \* last hour of the clock
MaxResolved == 1    \* anomalies resolved by the external operation
MaxWindow == 3      \* telemetry records deposited while the window rules are studied
MaxBatch == 3       \* telemetry records deposited while the batch metrics are studied

---------------------------------------------------------------------------
(* Static data: equipment and contract lines (read-only to both jobs) *)

Equipment == {"e1", "e2"}

\* e1 is under contract L1 from hour 0 on, e2 under contract L2 from hour 1 on;
\* both contracts end with hour 1.
LineItems ==
    { [lineItemId |-> "L1", equipmentId |-> "e1", siteId |-> "S1", startDate |-> 0, endDate |-> 1],
      [lineItemId |-> "L2", equipmentId |-> "e2", siteId |-> "S1", startDate |-> 1, endDate |-> 1] }

LineItemIds == { li.lineItemId : li \in LineItems }

Runs == {1, 2}      \* invocations of a job that may be in flight

NoLine == "none"

---------------------------------------------------------------------------
(* Numbers *)

NaN == -1

IsNaN(x) == x = NaN

\* JavaScript `+` on numbers: NaN (and undefined) is absorbing.
NumAdd(a, b) == IF IsNaN(a) \/ IsNaN(b) THEN NaN ELSE a + b

Frac(n, d) == [n |-> n, d |-> d]

Zero == Frac(0, 1)

FracEq(a, b) == a.n * b.d = b.n * a.d

FracLt(a, b) == a.n * b.d < b.n * a.d

---------------------------------------------------------------------------
(* Event Source *)

\* Payloads as generateEventValue builds them.
EngineStatusEvent(status, rpm) ==
    [eventType |-> "ENGINE_STATUS", value |-> [status |-> status, rpm |-> rpm]]

PayloadCycleEvent(tonnes, seconds) ==
    [eventType |-> "PAYLOAD_CYCLE", value |-> [payloadTonnes |-> tonnes, cycleTimeSeconds |-> seconds]]

FuelLevelEvent(level) == [eventType |-> "FUEL_LEVEL", value |-> [level |-> level]]

\* The events deposited while the Aggregator is studied ...
EventValues ==
    { EngineStatusEvent("RUNNING", 1500), EngineStatusEvent("IDLE", 750),
      EngineStatusEvent("OFF", 750), PayloadCycleEvent(5, 180), FuelLevelEvent(80) }

\* ... and while the Detector is studied: an engine record (after-hours rule) and
\* a slow payload cycle (cycle-time rule).
DetectorEventValues ==
    { EngineStatusEvent("RUNNING", 1500), PayloadCycleEvent(5, 180) }

\* PAYLOAD_CYCLE records whose Json value lacks one of the fields Step A reads
CycleWithoutTonnes(seconds) ==
    [eventType |-> "PAYLOAD_CYCLE", value |-> [cycleTimeSeconds |-> seconds]]

CycleWithoutSeconds(tonnes) ==
    [eventType |-> "PAYLOAD_CYCLE", value |-> [payloadTonnes |-> tonnes]]

\* ... and while payloads with a missing field are studied
MalformedEventValues ==
    { PayloadCycleEvent(5, 180), CycleWithoutTonnes(180), CycleWithoutSeconds(5) }

\* property access on a payload: a missing field reads as undefined
Field(v, f) == IF f \in DOMAIN v THEN v[f] ELSE NaN

HasStatus(v, s) == "status" \in DOMAIN v /\ v.status = s

LogIds == DOMAIN rawEventLog

\* column default of RawEventLog.isProcessed (the Prisma schema is not among the
\* sources; the Event Source deposits records "unprocessed")
IsProcessedDefault == FALSE

\* prisma.rawEventLog.create: timestamp and isProcessed take the column defaults
NewLog(e, ev) ==
    [id |-> Len(rawEventLog) + 1, equipmentId |-> e, eventType |-> ev.eventType,
     value |-> ev.value, timestamp |-> now, isProcessed |-> IsProcessedDefault]

Deposit(values) ==
    /\ Len(rawEventLog) < MaxLogs
    /\ \E e \in Equipment, ev \in values :
          rawEventLog' = Append(rawEventLog, NewLog(e, ev))
    /\ UNCHANGED <<now, lineItemUsage, anomalyLog, agg, det>>

Tick ==
    /\ now < MaxTime
    /\ now' = now + 1
    /\ UNCHANGED <<rawEventLog, lineItemUsage, anomalyLog, agg, det>>

---------------------------------------------------------------------------
(* Usage Aggregator: pure parts *)

\* faulty variant: the query without its where clause
UnprocessedFilterNone(l) == TRUE

\* where: { isProcessed: false }
UnprocessedFilter(l) == ~l.isProcessed

Unprocessed == { i \in LogIds : UnprocessedFilter(rawEventLog[i]) }

\* faulty variant: the where clause without startDate
IsActiveAtNoStart(li, t) == t <= li.endDate

\* faulty variant: gt in place of gte/lte on startDate
IsActiveAtStrict(li, t) == li.startDate < t /\ t <= li.endDate

\* lineItem.findFirst's where clause
IsActiveAt(li, t) == li.startDate <= t /\ t <= li.endDate

ActiveLineItems(e, t) ==
    { li \in LineItems : li.equipmentId = e /\ IsActiveAt(li, t) }

\* faulty variant: a filter that takes every record carrying a status
EngineTicksAnyStatus(l) == IF "status" \in DOMAIN l.value THEN 1 ELSE 0

\* Contribution of one record to each batch metric, as the filters of Step A read it.
EngineTicks(l) == IF HasStatus(l.value, "RUNNING") \/ HasStatus(l.value, "IDLE") THEN 1 ELSE 0

\* faulty variant: a filter that takes OFF for IDLE as well
IdleTicksWithOff(l) == IF HasStatus(l.value, "IDLE") \/ HasStatus(l.value, "OFF") THEN 1 ELSE 0

IdleTicks(l) == IF HasStatus(l.value, "IDLE") THEN 1 ELSE 0

IsCycle(l) == l.eventType = "PAYLOAD_CYCLE"

\* reduce((sum, l) => sum + field, 0) over the PAYLOAD_CYCLE records
RECURSIVE SumField(_, _)
SumField(ids, f) ==
    IF ids = {} THEN 0
    ELSE LET i == CHOOSE j \in ids : \A k \in ids : j <= k
         IN  NumAdd(Field(rawEventLog[i].value, f), SumField(ids \ {i}, f))

BatchMetrics(ids) ==
    LET cycles == { i \in ids : IsCycle(rawEventLog[i]) }
    IN  [totalEngineHours |-> Cardinality({ i \in ids : EngineTicks(rawEventLog[i]) = 1 }),
         totalIdleHours |-> Cardinality({ i \in ids : IdleTicks(rawEventLog[i]) = 1 }),
         payloadMovedTonnes |-> SumField(cycles, "payloadTonnes"),
         totalCycleTimeSeconds |-> SumField(cycles, "cycleTimeSeconds"),
         cycleCount |-> Cardinality(cycles)]

FuelRateX10 == 55

\* the object standing for a missing LineItemUsage row
DefaultUsage ==
    [totalEngineHours |-> 0, totalIdleHours |-> 0, payloadMovedTonnes |-> 0,
     totalCycleTimeSeconds |-> 0, cycleCount |-> 0]

UsageOf(lineId) == { u \in lineItemUsage : u.lineItemId = lineId }

\* tx.lineItemUsage.findUnique(...) || { ...zeros }
FindExistingUsage(lineId) ==
    IF UsageOf(lineId) = {} THEN DefaultUsage
    ELSE CHOOSE u \in UsageOf(lineId) : TRUE

\* faulty variant: working hours that forget the idle hours of the batch
NewWorkingHoursStaleIdle(existing, batch) ==
    (existing.totalEngineHours + batch.totalEngineHours) - existing.totalIdleHours

\* Step C: the values computed in the callback from existingUsage and the batch.
NewWorkingHours(existing, batch) ==
    (existing.totalEngineHours + batch.totalEngineHours)
        - (existing.totalIdleHours + batch.totalIdleHours)

Computed(existing, batch) ==
    LET newTotalEngineHours == existing.totalEngineHours + batch.totalEngineHours
        newTotalIdleHours == existing.totalIdleHours + batch.totalIdleHours
        newWorkingHours == NewWorkingHours(existing, batch)
        newFuelConsumed == newTotalEngineHours * FuelRateX10
        updatedPayload == NumAdd(Field(existing, "payloadMovedTonnes"), batch.payloadMovedTonnes)
        updatedCycleTime == NumAdd(Field(existing, "totalCycleTimeSeconds"), batch.totalCycleTimeSeconds)
        updatedCycleCount == NumAdd(Field(existing, "cycleCount"), batch.cycleCount)
    IN  [totalEngineHours |-> newTotalEngineHours,
         totalIdleHours |-> newTotalIdleHours,
         workingHours |-> newWorkingHours,
         fuelConsumed |-> newFuelConsumed,
         payloadMovedTonnes |-> updatedPayload,
         workingToIdleRatio |->
            IF newTotalEngineHours > 0 THEN Frac(newWorkingHours * 100, newTotalEngineHours) ELSE Zero,
         fuelBurnRate |->
            IF newWorkingHours > 0 THEN Frac(newFuelConsumed, newWorkingHours * 10) ELSE Zero,
         avgCycleTimeSeconds |->
            IF ~IsNaN(updatedCycleCount) /\ updatedCycleCount > 0
            THEN IF IsNaN(updatedCycleTime) THEN Frac(NaN, 1)
                 ELSE Frac(updatedCycleTime, updatedCycleCount)
            ELSE Zero]

\* Step D, create branch
CreateRow(lineId, c) ==
    [lineItemId |-> lineId,
     totalEngineHours |-> c.totalEngineHours,
     totalIdleHours |-> c.totalIdleHours,
     workingHours |-> c.workingHours,
     fuelConsumed |-> c.fuelConsumed,
     payloadMovedTonnes |-> c.payloadMovedTonnes,
     workingToIdleRatio |-> c.workingToIdleRatio,
     fuelBurnRate |-> c.fuelBurnRate,
     avgCycleTimeSeconds |-> c.avgCycleTimeSeconds]

\* faulty variant: fuelConsumed computed from the hours of the batch alone
UpdateRowFuelOfBatch(row, batch, c) ==
    [row EXCEPT
        !.totalEngineHours = @ + batch.totalEngineHours,
        !.totalIdleHours = @ + batch.totalIdleHours,
        !.payloadMovedTonnes = NumAdd(@, batch.payloadMovedTonnes),
        !.workingHours = c.workingHours,
        !.fuelConsumed = batch.totalEngineHours * FuelRateX10,
        !.workingToIdleRatio = c.workingToIdleRatio,
        !.fuelBurnRate = c.fuelBurnRate,
        !.avgCycleTimeSeconds = c.avgCycleTimeSeconds]

\* Step D, update branch: three increments on the stored row, the rest overwritten
UpdateRow(row, batch, c) ==
    [row EXCEPT
        !.totalEngineHours = @ + batch.totalEngineHours,
        !.totalIdleHours = @ + batch.totalIdleHours,
        !.payloadMovedTonnes = NumAdd(@, batch.payloadMovedTonnes),
        !.workingHours = c.workingHours,
        !.fuelConsumed = c.fuelConsumed,
        !.workingToIdleRatio = c.workingToIdleRatio,
        !.fuelBurnRate = c.fuelBurnRate,
        !.avgCycleTimeSeconds = c.avgCycleTimeSeconds]

\* faulty variant: a plain create in place of the upsert
UpsertAlwaysCreate(table, lineId) == FALSE

\* upsert chooses its branch by the unique key lineItemId
UpsertIsUpdate(table, lineId) == \E u \in table : u.lineItemId = lineId

\* faulty variant: updateMany selecting by the equipment of the group
MarkProcessedOfEquipment(log, ids) ==
    [i \in DOMAIN log |->
        IF \E j \in ids : log[j].equipmentId = log[i].equipmentId
        THEN [log[i] EXCEPT !.isProcessed = TRUE] ELSE log[i]]

\* faulty variant: updateMany without its where clause
MarkProcessedAll(log, ids) ==
    [i \in DOMAIN log |-> [log[i] EXCEPT !.isProcessed = TRUE]]

\* updateMany({ where: { id: { in: ids } }, data: { isProcessed: true } })
MarkProcessed(log, ids) ==
    [i \in DOMAIN log |-> IF i \in ids THEN [log[i] EXCEPT !.isProcessed = TRUE] ELSE log[i]]


\* The write an upsert performs: the row it replaces (if any) and the row it stores.
UpsertWrite(table, lineId, batch, c) ==
    IF UpsertIsUpdate(table, lineId)
    THEN LET row == CHOOSE u \in table : u.lineItemId = lineId
         IN  [old |-> {row}, new |-> UpdateRow(row, batch, c)]
    ELSE [old |-> {}, new |-> CreateRow(lineId, c)]

ApplyWrite(table, w) == (table \ w.old) \cup {w.new}

\* faulty variant: the write made through `prisma`, outside the transaction
UncommittedVisible(committed, dirty) == dirty

\* prisma.$transaction: what the store shows of a write made through `tx`
\* before the transaction commits is the committed table.
Uncommitted(committed, dirty) == committed

---------------------------------------------------------------------------
(* Usage Aggregator: processRawLogs, one step per await *)

NoWrite == [old |-> {}, new |-> DefaultUsage]

AggIdle(result) ==
    [pc |-> "idle", result |-> result, logs |-> {}, todo |-> {},
     equipmentId |-> "none", activeLineItem |-> NoLine,
     existing |-> DefaultUsage, written |-> NoWrite]

TxPcs == {"txRead", "txUpsert", "txMark"}

\* logsByEquipment[equipmentId] of run r
GroupLogs(r, e) == { i \in agg[r].logs : rawEventLog[i].equipmentId = e }

BatchOf(r) == BatchMetrics(GroupLogs(r, agg[r].equipmentId))

\* the loop moves on to the next key, or the function returns
AggAfterGroup(r, e) ==
    IF agg[r].todo \ {e} = {}
    THEN AggIdle("resolved")
    ELSE [agg[r] EXCEPT !.pc = "loop", !.todo = @ \ {e}, !.equipmentId = "none",
                        !.activeLineItem = NoLine, !.existing = DefaultUsage,
                        !.written = NoWrite]

\* 1. findMany({ isProcessed: false }); return if there is none; group by equipment
AggFetch(r) ==
    /\ agg[r].pc = "idle"
    /\ agg' = [agg EXCEPT ![r] =
                 IF Unprocessed = {} THEN AggIdle("noLogs")
                 ELSE [AggIdle(agg[r].result) EXCEPT
                          !.pc = "loop", !.logs = Unprocessed,
                          !.todo = { rawEventLog[i].equipmentId : i \in Unprocessed }]]
    /\ UNCHANGED <<now, rawEventLog, lineItemUsage, anomalyLog, det>>

\* 3. next equipment: findFirst the active line; `continue` when there is none
AggFindLine(r) ==
    /\ agg[r].pc = "loop"
    /\ \E e \in agg[r].todo :
          IF ActiveLineItems(e, now) = {}
          THEN agg' = [agg EXCEPT ![r] = AggAfterGroup(r, e)]
          ELSE \E li \in ActiveLineItems(e, now) :
                  agg' = [agg EXCEPT ![r] = [@ EXCEPT !.pc = "txRead", !.equipmentId = e,
                                                      !.activeLineItem = li.lineItemId]]
    /\ UNCHANGED <<now, rawEventLog, lineItemUsage, anomalyLog, det>>

\* Step B: tx.lineItemUsage.findUnique(...) || zeros
TxRead(r) ==
    /\ agg[r].pc = "txRead"
    /\ agg' = [agg EXCEPT ![r] = [@ EXCEPT !.pc = "txUpsert",
                                           !.existing = FindExistingUsage(agg[r].activeLineItem)]]
    /\ UNCHANGED <<now, rawEventLog, lineItemUsage, anomalyLog, det>>

\* the row of a line is locked by the transaction that has written it
HoldsRow(q, lineId) == agg[q].pc = "txMark" /\ agg[q].activeLineItem = lineId

\* Step D: tx.lineItemUsage.upsert; waits while another transaction holds the row
TxUpsert(r) ==
    /\ agg[r].pc = "txUpsert"
    /\ \A q \in Runs \ {r} : ~HoldsRow(q, agg[r].activeLineItem)
    /\ LET w == UpsertWrite(lineItemUsage, agg[r].activeLineItem, BatchOf(r),
                            Computed(agg[r].existing, BatchOf(r)))
       IN  /\ agg' = [agg EXCEPT ![r] = [@ EXCEPT !.pc = "txMark", !.written = w]]
           /\ lineItemUsage' = Uncommitted(lineItemUsage, ApplyWrite(lineItemUsage, w))
    /\ UNCHANGED <<now, rawEventLog, anomalyLog, det>>

\* Step E and the commit: tx.rawEventLog.updateMany, then the callback returns
TxCommit(r) ==
    /\ agg[r].pc = "txMark"
    /\ lineItemUsage' = ApplyWrite(lineItemUsage, agg[r].written)
    /\ rawEventLog' = MarkProcessed(rawEventLog, GroupLogs(r, agg[r].equipmentId))
    /\ agg' = [agg EXCEPT ![r] = AggAfterGroup(r, agg[r].equipmentId)]
    /\ UNCHANGED <<now, anomalyLog, det>>

\* A store call inside the transaction throws: the transaction is rolled back and,
\* there being no try/catch around it, the exception leaves processRawLogs.
TxFail(r) ==
    /\ agg[r].pc \in TxPcs
    /\ agg' = [agg EXCEPT ![r] = AggIdle("rejected")]
    /\ UNCHANGED <<now, rawEventLog, lineItemUsage, anomalyLog, det>>

Aggregator(r) ==
    \/ AggFetch(r)
    \/ AggFindLine(r)
    \/ TxRead(r)
    \/ TxUpsert(r)
    \/ TxCommit(r)
    \/ TxFail(r)

---------------------------------------------------------------------------
(* Anomaly Rule Engine: the rules of checkForAnomalies as pure operators *)

\* new Date(l.timestamp).getHours(); clock 0 is 19:00 local time
HourOfDay(t) == (19 + t) % 24

\* parseFloat(x.toFixed(2)), in hundredths
ToFixed2(f) == (2 * 100 * f.n + f.d) \div (2 * f.d)

Candidate(type, severity, details) ==
    [anomalyType |-> type, severity |-> severity, details |-> details]

\* faulty variant: the rule without its engine-hours threshold
PoorRatioFiresNoHours(usage) == FracLt(usage.workingToIdleRatio, Frac(50, 1))

\* usage.workingToIdleRatio < 50 && usage.totalEngineHours > 10
PoorRatioFires(usage) ==
    FracLt(usage.workingToIdleRatio, Frac(50, 1)) /\ usage.totalEngineHours > 10 * 10

\* usage.fuelBurnRate > 10 && usage.workingHours > 5
HighBurnFires(usage) ==
    FracLt(Frac(10, 1), usage.fuelBurnRate) /\ usage.workingHours > 5 * 10

\* usage.avgCycleTimeSeconds && usage.avgCycleTimeSeconds > 150
SlowCycleFires(usage) ==
    usage.avgCycleTimeSeconds.n # 0 /\ FracLt(Frac(150, 1), usage.avgCycleTimeSeconds)

\* totalEngineHours > 250 && (totalEngineHours % 250) < 10
MissedMaintenanceFires(usage) ==
    usage.totalEngineHours > 250 * 10 /\ (usage.totalEngineHours % (250 * 10)) < 10 * 10

\* the four rules on LineItemUsage, in the order the code evaluates them
UsageCandidates(usage) ==
    (IF PoorRatioFires(usage)
     THEN <<Candidate("POOR_WORKING_TO_IDLE_RATIO", "MEDIUM",
                      [workingToIdleRatio |-> ToFixed2(usage.workingToIdleRatio), threshold |-> 50])>>
     ELSE <<>>)
    \o (IF HighBurnFires(usage)
        THEN <<Candidate("HIGH_FUEL_BURN_RATE", "LOW",
                         [currentBurnRate |-> ToFixed2(usage.fuelBurnRate), benchmarkRate |-> 8])>>
        ELSE <<>>)
    \o (IF SlowCycleFires(usage)
        THEN <<Candidate("SLOW_CYCLE_TIME", "LOW",
                         [avgCycleTimeSeconds |-> usage.avgCycleTimeSeconds, benchmarkSeconds |-> 120])>>
        ELSE <<>>)
    \o (IF MissedMaintenanceFires(usage)
        THEN <<Candidate("MISSED_MAINTENANCE_WINDOW", "MEDIUM",
                         [totalEngineHours |-> usage.totalEngineHours,
                          nextServiceDueAt |->
                             ((usage.totalEngineHours + 250 * 10 - 1) \div (250 * 10)) * (250 * 10)])>>
        ELSE <<>>)

\* rawEventLog.findMany({ equipmentId, timestamp >= oneHourAgo })
RecentLogs(e, oneHourAgo) ==
    { i \in LogIds : rawEventLog[i].equipmentId = e /\ rawEventLog[i].timestamp >= oneHourAgo }

\* Great-circle distance from the site center (12.9716, 79.1588), compared with the
\* 5 km radius.  lat/long are in 1e-4 degrees; the haversine formula is replaced by
\* its small-angle form dLat^2 + (cos(lat0) * dLon)^2 > (5 km / 11.119 m)^2, scaled
\* by 40 (cos(lat0) = 0.9745 as 39/40) to stay within 32-bit integers for positions
\* up to 0.07 degrees from the center.
OutsideGeofence(val) ==
    LET dLat == (val.lat - 129716) * 40
        dLon == (val.long - 791588) * 39
    IN  dLat * dLat + dLon * dLon > 17987 * 17987

\* Array.prototype.find on the rows as the store returned them: without orderBy
\* the first match may be any of the matches.
FirstMatches(ids) == ids

GeofenceCandidates(recent, siteId) ==
    LET locs == { i \in recent : rawEventLog[i].eventType = "LOCATION_UPDATE" }
    IN  IF locs = {} THEN {<<>>}
        ELSE { IF OutsideGeofence(rawEventLog[i].value)
               THEN <<Candidate("GEOFENCE_BREACH", "HIGH",
                                [lastKnownLocation |-> [lat |-> rawEventLog[i].value.lat,
                                                        long |-> rawEventLog[i].value.long],
                                 site |-> siteId])>>
               ELSE <<>> : i \in FirstMatches(locs) }

IsAfterHours(l) ==
    /\ l.eventType = "ENGINE_STATUS"
    /\ ~HasStatus(l.value, "OFF")
    /\ (HourOfDay(l.timestamp) < 6 \/ HourOfDay(l.timestamp) > 19)

AfterHoursCandidates(recent) ==
    LET hits == { i \in recent : IsAfterHours(rawEventLog[i]) }
    IN  IF hits = {} THEN {<<>>}
        ELSE { <<Candidate("AFTER_HOURS_OPERATION", "MEDIUM",
                           [eventTime |-> rawEventLog[i].timestamp])>> : i \in FirstMatches(hits) }

\* FUEL_LEVEL rows sorted by timestamp; timestamps grow with the id
RECURSIVE SortedIds(_)
SortedIds(ids) ==
    IF ids = {} THEN <<>>
    ELSE LET i == CHOOSE j \in ids : \A k \in ids : j <= k
         IN  <<i>> \o SortedIds(ids \ {i})

\* faulty variant: the loop without its break, the last drop overwriting the first
FuelDropCandidatesLast(recent) ==
    LET fuelLogs == SortedIds({ i \in recent : rawEventLog[i].eventType = "FUEL_LEVEL" })
        level(k) == Field(rawEventLog[fuelLogs[k]].value, "level")
        drops == { k \in 2..Len(fuelLogs) : level(k - 1) - level(k) > 15 }
    IN  IF drops = {} THEN <<>>
        ELSE LET k == CHOOSE j \in drops : \A m \in drops : j >= m
             IN  <<Candidate("SUDDEN_FUEL_DROP", "HIGH",
                             [fromLevel |-> level(k - 1), toLevel |-> level(k)])>>

FuelDropCandidates(recent) ==
    LET fuelLogs == SortedIds({ i \in recent : rawEventLog[i].eventType = "FUEL_LEVEL" })
        level(k) == Field(rawEventLog[fuelLogs[k]].value, "level")
        drops == { k \in 2..Len(fuelLogs) : level(k - 1) - level(k) > 15 }
    IN  IF drops = {} THEN <<>>
        ELSE LET k == CHOOSE j \in drops : \A m \in drops : j <= m
             IN  <<Candidate("SUDDEN_FUEL_DROP", "HIGH",
                             [fromLevel |-> level(k - 1), toLevel |-> level(k)])>>

IsHighTemp(l) == l.eventType = "ENGINE_TEMP" /\ Field(l.value, "temp") > 102

HighTempCandidates(recent) ==
    LET hits == { i \in recent : IsHighTemp(rawEventLog[i]) }
    IN  IF hits = {} THEN {<<>>}
        ELSE { <<Candidate("HIGH_ENGINE_TEMP", "HIGH",
                           [temperature |-> rawEventLog[i].value.temp, threshold |-> 102])>>
               : i \in FirstMatches(hits) }

\* every order in which `for (const code in errorCounts)` may visit the codes
RECURSIVE Orders(_)
Orders(S) ==
    IF S = {} THEN {<<>>}
    ELSE UNION { { <<x>> \o rest : rest \in Orders(S \ {x}) } : x \in S }

DiagnosticCandidates(recent) ==
    LET errorLogs == { i \in recent : rawEventLog[i].eventType = "DIAGNOSTIC_CODE" }
        codes == { rawEventLog[i].value.code : i \in errorLogs }
        count(c) == Cardinality({ i \in errorLogs : rawEventLog[i].value.code = c })
        frequent == { c \in codes : count(c) >= 3 }
    IN  { [k \in DOMAIN o |->
              Candidate("FREQUENT_DIAGNOSTIC_ERRORS", "MEDIUM",
                        [errorCode |-> o[k], countInLastHour |-> count(o[k])])]
          : o \in Orders(frequent) }

\* the five rules on the window, in the order the code evaluates them
WindowCandidates(recent, siteId) ==
    { g \o a \o FuelDropCandidates(recent) \o h \o dg :
        g \in GeofenceCandidates(recent, siteId),
        a \in AfterHoursCandidates(recent),
        h \in HighTempCandidates(recent),
        dg \in DiagnosticCandidates(recent) }

---------------------------------------------------------------------------
(* Anomaly Detector: checkForAnomalies, one step per await *)

NoItem == [lineItemId |-> NoLine, equipmentId |-> "none", siteId |-> "none", usage |-> DefaultUsage]

DetIdle ==
    [pc |-> "idle", items |-> {}, item |-> NoItem, oneHourAgo |-> 0,
     phase |-> "none", cands |-> <<>>]

\* faulty variant: the lookup with the wrong status
ExistingAnomalyResolved(lineId, type) ==
    \E k \in DOMAIN anomalyLog :
        /\ anomalyLog[k].lineItemId = lineId
        /\ anomalyLog[k].anomalyType = type
        /\ anomalyLog[k].status = "RESOLVED"

\* faulty variant: the lookup without the status
ExistingAnomalyAnyStatus(lineId, type) ==
    \E k \in DOMAIN anomalyLog :
        /\ anomalyLog[k].lineItemId = lineId
        /\ anomalyLog[k].anomalyType = type

\* findFirst({ lineItemId, anomalyType, status: 'UNRESOLVED' })
ExistingAnomaly(lineId, type) ==
    \E k \in DOMAIN anomalyLog :
        /\ anomalyLog[k].lineItemId = lineId
        /\ anomalyLog[k].anomalyType = type
        /\ anomalyLog[k].status = "UNRESOLVED"

\* anomalyLog.create: id, timestamp and status take the column defaults
NewAnomaly(lineId, c) ==
    [id |-> Len(anomalyLog) + 1, timestamp |-> now, anomalyType |-> c.anomalyType,
     severity |-> c.severity, status |-> "UNRESOLVED", details |-> c.details,
     lineItemId |-> lineId]

\* faulty variant: the query without its two date conditions
LineItemsWithUsage ==
    { [lineItemId |-> li.lineItemId, equipmentId |-> li.equipmentId, siteId |-> li.siteId,
       usage |-> u] :
      li \in LineItems, u \in lineItemUsage }
    \cap { it \in [lineItemId : LineItemIds, equipmentId : Equipment, siteId : {"S1"},
                   usage : lineItemUsage] : it.usage.lineItemId = it.lineItemId }

\* lineItem.findMany({ startDate <= now <= endDate, usage: { isNot: null } }, include usage)
ActiveLineItemsWithUsage ==
    { [lineItemId |-> li.lineItemId, equipmentId |-> li.equipmentId, siteId |-> li.siteId,
       usage |-> u] :
      li \in { x \in LineItems : IsActiveAt(x, now) }, u \in lineItemUsage }
    \cap { it \in [lineItemId : LineItemIds, equipmentId : Equipment, siteId : {"S1"},
                   usage : lineItemUsage] : it.usage.lineItemId = it.lineItemId }

\* The synchronous code from the top of the for loop to the next store call: the
\* states the run may be in when it takes the next item (the order is the store's).
DetNextItem(st, items) ==
    IF items = {} THEN {DetIdle}
    ELSE { LET cs == UsageCandidates(it.usage)
           IN  [st EXCEPT !.items = items \ {it}, !.item = it, !.oneHourAgo = now - 1,
                          !.phase = "usage", !.cands = cs,
                          !.pc = IF cs = <<>> THEN "recent" ELSE "find"]
           : it \in items }

\* after one candidate has been dealt with
DetAfterCandidate(st) ==
    IF Len(st.cands) > 1 THEN {[st EXCEPT !.cands = Tail(@), !.pc = "find"]}
    ELSE IF st.phase = "usage" THEN {[st EXCEPT !.cands = <<>>, !.pc = "recent"]}
    ELSE DetNextItem(st, st.items)

DetFetch(d) ==
    /\ det[d].pc = "idle"
    /\ \E st \in DetNextItem(DetIdle, ActiveLineItemsWithUsage) :
          det' = [det EXCEPT ![d] = st]
    /\ UNCHANGED <<now, rawEventLog, lineItemUsage, anomalyLog, agg>>

\* createAnomalyIfNotExists, first await: look for an open anomaly
DetFind(d) ==
    /\ det[d].pc = "find"
    /\ IF ExistingAnomaly(det[d].item.lineItemId, Head(det[d].cands).anomalyType)
       THEN \E st \in DetAfterCandidate(det[d]) : det' = [det EXCEPT ![d] = st]
       ELSE det' = [det EXCEPT ![d] = [@ EXCEPT !.pc = "create"]]
    /\ UNCHANGED <<now, rawEventLog, lineItemUsage, anomalyLog, agg>>

\* faulty variant: a resolved record of the same kind is reopened instead of a new
\* one being inserted
DetCreateReopen(d) ==
    /\ det[d].pc = "create"
    /\ LET lineId == det[d].item.lineItemId
           type == Head(det[d].cands).anomalyType
           old == { k \in DOMAIN anomalyLog : /\ anomalyLog[k].lineItemId = lineId
                                               /\ anomalyLog[k].anomalyType = type }
       IN  IF old = {}
           THEN anomalyLog' = Append(anomalyLog, NewAnomaly(lineId, Head(det[d].cands)))
           ELSE \E k \in old : anomalyLog' = [anomalyLog EXCEPT ![k].status = "UNRESOLVED"]
    /\ \E st \in DetAfterCandidate(det[d]) : det' = [det EXCEPT ![d] = st]
    /\ UNCHANGED <<now, rawEventLog, lineItemUsage, agg>>

\* createAnomalyIfNotExists, second await: insert
DetCreate(d) ==
    /\ det[d].pc = "create"
    /\ anomalyLog' = Append(anomalyLog, NewAnomaly(det[d].item.lineItemId, Head(det[d].cands)))
    /\ \E st \in DetAfterCandidate(det[d]) : det' = [det EXCEPT ![d] = st]
    /\ UNCHANGED <<now, rawEventLog, lineItemUsage, agg>>

\* the window query, then the five rules on it
DetRecent(d) ==
    /\ det[d].pc = "recent"
    /\ LET recentLogs == RecentLogs(det[d].item.equipmentId, det[d].oneHourAgo)
       IN  IF recentLogs = {}
           THEN \E st \in DetNextItem(det[d], det[d].items) : det' = [det EXCEPT ![d] = st]
           ELSE \E cs \in WindowCandidates(recentLogs, det[d].item.siteId) :
                   IF cs = <<>>
                   THEN \E st \in DetNextItem(det[d], det[d].items) :
                           det' = [det EXCEPT ![d] = st]
                   ELSE det' = [det EXCEPT ![d] =
                                   [@ EXCEPT !.phase = "window", !.cands = cs, !.pc = "find"]]
    /\ UNCHANGED <<now, rawEventLog, lineItemUsage, anomalyLog, agg>>

Detector(d) ==
    \/ DetFetch(d)
    \/ DetFind(d)
    \/ DetCreate(d)
    \/ DetRecent(d)

\* the external operation that closes an anomaly
Resolve ==
    /\ Cardinality({ k \in DOMAIN anomalyLog : anomalyLog[k].status = "RESOLVED" }) < MaxResolved
    /\ \E k \in DOMAIN anomalyLog :
          /\ anomalyLog[k].status = "UNRESOLVED"
          /\ anomalyLog' = [anomalyLog EXCEPT ![k].status = "RESOLVED"]
    /\ UNCHANGED <<now, rawEventLog, lineItemUsage, agg, det>>

---------------------------------------------------------------------------
(* Specifications *)

Init ==
    /\ now = 0
    /\ rawEventLog = <<>>
    /\ lineItemUsage = {}
    /\ anomalyLog = <<>>
    /\ agg = [r \in Runs |-> AggIdle("none")]
    /\ det = [d \in Runs |-> DetIdle]

\* The Aggregator under the scheduler's intended regime: one invocation at a time.
Next ==
    \/ Deposit(EventValues)
    \/ Tick
    \/ Aggregator(1)

Spec == Init /\ [][Next]_vars

\* The Aggregator, one invocation at a time, over payloads that may lack a field.
NextMalformed ==
    \/ Deposit(MalformedEventValues)
    \/ Tick
    \/ Aggregator(1)

SpecMalformed == Init /\ [][NextMalformed]_vars

\* The scheduler keeps invoking processRawLogs and every invocation goes on to its
\* next await; a store call of the transaction that can be made again and again
\* eventually succeeds.
Fairness ==
    /\ WF_vars(AggFetch(1))
    /\ WF_vars(AggFindLine(1))
    /\ SF_vars(TxRead(1))
    /\ SF_vars(TxUpsert(1))
    /\ SF_vars(TxCommit(1))

\* which kind of record is deposited makes no difference to its being processed
NextLive ==
    \/ Deposit({EngineStatusEvent("RUNNING", 1500)})
    \/ Tick
    \/ Aggregator(1)

SpecLive == Init /\ [][NextLive]_vars /\ Fairness

\* Both jobs, one invocation of each at a time, and the resolution of anomalies.
NextDetect ==
    \/ Deposit(DetectorEventValues)
    \/ Tick
    \/ Resolve
    \/ Aggregator(1)
    \/ Detector(1)

SpecDetect == Init /\ [][NextDetect]_vars

\* Two invocations of processRawLogs in flight (node-cron starts a run whether or
\* not the previous one has ended).
NextAggOverlap ==
    \/ Deposit(EventValues)
    \/ Tick
    \/ \E r \in Runs : Aggregator(r)

SpecAggOverlap == Init /\ [][NextAggOverlap]_vars

\* Two invocations of checkForAnomalies in flight.
NextDetOverlap ==
    \/ Deposit(DetectorEventValues)
    \/ Tick
    \/ Resolve
    \/ Aggregator(1)
    \/ \E d \in Runs : Detector(d)

SpecDetOverlap == Init /\ [][NextDetOverlap]_vars

\* The Event Source deposits only before the first invocation of processRawLogs:
\* nothing new arrives between one run and the next.
NoRunYet == \A r \in Runs : agg[r].pc = "idle" /\ agg[r].result = "none"

NextQuiet ==
    \/ (NoRunYet /\ Deposit(EventValues))
    \/ Tick
    \/ Aggregator(1)

SpecQuiet == Init /\ [][NextQuiet]_vars

---------------------------------------------------------------------------
(* The rules of the Detector on drawn inputs.  The rules read a LineItemUsage row  *)
(* and the records of the last hour; the specifications below start from a store   *)
(* that already holds usage rows (the records that produced them are older than    *)
(* the window and are not represented) and deposit the records of the window.      *)

LocationEvent(lat, long) ==
    [eventType |-> "LOCATION_UPDATE", value |-> [lat |-> lat, long |-> long]]

\* fuel readings, a position at the site center and one 9 km away from it
WindowEventValues ==
    { FuelLevelEvent(100), FuelLevelEvent(80), FuelLevelEvent(70), FuelLevelEvent(60),
      LocationEvent(129716, 791588), LocationEvent(129050, 791050) }

DepositWindow ==
    /\ Len(rawEventLog) < MaxWindow
    /\ \E ev \in WindowEventValues : rawEventLog' = Append(rawEventLog, NewLog("e1", ev))
    /\ UNCHANGED <<now, lineItemUsage, anomalyLog, agg, det>>

\* a batch with the given numbers of engine and idle records and of 180 s cycles
BatchSample(engine, idle, cycles) ==
    [totalEngineHours |-> engine, totalIdleHours |-> idle, payloadMovedTonnes |-> 5 * cycles,
     totalCycleTimeSeconds |-> 180 * cycles, cycleCount |-> cycles]

\* the row the Aggregator creates for a line from such a batch
UsageSample(lineId, engine, idle, cycles) ==
    CreateRow(lineId, Computed(DefaultUsage, BatchSample(engine, idle, cycles)))

InitWindow ==
    /\ now = 0
    /\ rawEventLog = <<>>
    /\ lineItemUsage = {UsageSample("L1", 2, 1, 0)}
    /\ anomalyLog = <<>>
    /\ agg = [r \in Runs |-> AggIdle("none")]
    /\ det = [d \in Runs |-> DetIdle]

NextWindow ==
    \/ DepositWindow
    \/ Tick
    \/ Detector(1)

SpecWindow == InitWindow /\ [][NextWindow]_vars

\* The Aggregator, one invocation at a time, over batches of e1 that mix the kinds
\* of record Step A tells apart.
BatchEventValues ==
    { EngineStatusEvent("RUNNING", 1500), EngineStatusEvent("IDLE", 750),
      EngineStatusEvent("OFF", 750), PayloadCycleEvent(5, 180), PayloadCycleEvent(10, 60),
      FuelLevelEvent(80), LocationEvent(129716, 791588) }

DepositBatch ==
    /\ Len(rawEventLog) < MaxBatch
    /\ \E ev \in BatchEventValues : rawEventLog' = Append(rawEventLog, NewLog("e1", ev))
    /\ UNCHANGED <<now, lineItemUsage, anomalyLog, agg, det>>

NextBatch ==
    \/ DepositBatch
    \/ Aggregator(1)

SpecBatch == Init /\ [][NextBatch]_vars

\* Usage rows for the rules on LineItemUsage: 11 h of which 6 idle (ratio 45.5), 5 h
\* of which 3 idle, 11 h of which 5 idle, exactly 10 h of which 6 idle, 11 h of
\* which 5.5 idle (ratio exactly 50), and 0.2 h with one 180 s cycle.
UsageSamples(lineId) ==
    { UsageSample(lineId, 110, 60, 0), UsageSample(lineId, 50, 30, 0),
      UsageSample(lineId, 110, 50, 0), UsageSample(lineId, 100, 60, 0),
      UsageSample(lineId, 110, 55, 0), UsageSample(lineId, 2, 1, 1) }

\* the clock runs one hour past the end of the contracts
TickPast ==
    /\ now <= MaxTime
    /\ now' = now + 1
    /\ UNCHANGED <<rawEventLog, lineItemUsage, anomalyLog, agg, det>>

\* hour 1: both contracts are active; L1 has a usage row, L2 may have one
InitUsageRules ==
    /\ now = 1
    /\ rawEventLog = <<>>
    /\ \E u1 \in UsageSamples("L1"), rest \in {{}, {UsageSample("L2", 2, 1, 1)}} :
          lineItemUsage = {u1} \cup rest
    /\ anomalyLog = <<>>
    /\ agg = [r \in Runs |-> AggIdle("none")]
    /\ det = [d \in Runs |-> DetIdle]

NextUsageRules ==
    \/ Deposit({EngineStatusEvent("RUNNING", 1500)})
    \/ TickPast
    \/ Resolve
    \/ Detector(1)

SpecUsageRules == InitUsageRules /\ [][NextUsageRules]_vars

---------------------------------------------------------------------------
(* Quantities the properties below speak about *)

Processed(i) == rawEventLog[i].isProcessed

ProcessedOf(e) == { i \in LogIds : rawEventLog[i].equipmentId = e /\ Processed(i) }

LinesOf(e) == { li.lineItemId : li \in { x \in LineItems : x.equipmentId = e } }

RECURSIVE SumRows(_, _)
SumRows(rows, f) ==
    IF rows = {} THEN 0
    ELSE LET u == CHOOSE x \in rows : TRUE
         IN  u[f] + SumRows(rows \ {u}, f)

RECURSIVE SumLogs(_, _)
SumLogs(ids, f) ==
    IF ids = {} THEN 0
    ELSE LET i == CHOOSE j \in ids : TRUE
         IN  (IF f \in DOMAIN rawEventLog[i].value THEN rawEventLog[i].value[f] ELSE 0)
             + SumLogs(ids \ {i}, f)

StatusCount(ids, statuses) ==
    Cardinality({ i \in ids : /\ "status" \in DOMAIN rawEventLog[i].value
                              /\ rawEventLog[i].value.status \in statuses })

CycleLogs(ids) == { i \in ids : rawEventLog[i].eventType = "PAYLOAD_CYCLE" }

\* the cumulative fields stored for the lines of equipment e
Stored(table, e, f) == SumRows({ u \in table : u.lineItemId \in LinesOf(e) }, f)

\* The cumulative fields of e's lines are the contributions of exactly the processed
\* records of e, each counted once.
StatsMatchProcessed(table, e) ==
    /\ Stored(table, e, "totalEngineHours") = StatusCount(ProcessedOf(e), {"RUNNING", "IDLE"})
    /\ Stored(table, e, "totalIdleHours") = StatusCount(ProcessedOf(e), {"IDLE"})
    /\ Stored(table, e, "payloadMovedTonnes") = SumLogs(CycleLogs(ProcessedOf(e)), "payloadTonnes")

OpenAnomalies(log, lineId, type) ==
    { k \in DOMAIN log : /\ log[k].lineItemId = lineId
                          /\ log[k].anomalyType = type
                          /\ log[k].status = "UNRESOLVED" }

AnomalyTypes ==
    { "POOR_WORKING_TO_IDLE_RATIO", "HIGH_FUEL_BURN_RATE", "SLOW_CYCLE_TIME", "GEOFENCE_BREACH",
      "AFTER_HOURS_OPERATION", "SUDDEN_FUEL_DROP", "HIGH_ENGINE_TEMP",
      "FREQUENT_DIAGNOSTIC_ERRORS", "MISSED_MAINTENANCE_WINDOW" }

---------------------------------------------------------------------------
(* C1 -- No double counting: the cumulative fields of a line's UsageStatistics    *)
(* are exactly the sum of the contributions of the processed records, each        *)
(* applied once, also when two invocations of processRawLogs overlap.             *)
(* Stated for SpecAggOverlap, where two invocations are in flight.                *)

C1_NoDoubleCounting == \A e \in Equipment : StatsMatchProcessed(lineItemUsage, e)

---------------------------------------------------------------------------
(* C2 -- At most one open anomaly: under non-overlapping checkForAnomalies runs,  *)
(* interleaved with resolutions and Aggregator runs, every (contract line,        *)
(* anomaly type) has at most one UNRESOLVED record.  Stated for SpecDetect.       *)

C2_AtMostOneOpen ==
    \A lineId \in LineItemIds, type \in AnomalyTypes :
        Cardinality(OpenAnomalies(anomalyLog, lineId, type)) <= 1

\* an anomaly was resolved and the Detector has opened a new one of the same kind
C2_Witness ==
    \E j, k \in DOMAIN anomalyLog :
        /\ anomalyLog[j].lineItemId = anomalyLog[k].lineItemId
        /\ anomalyLog[j].anomalyType = anomalyLog[k].anomalyType
        /\ anomalyLog[j].status = "RESOLVED"
        /\ anomalyLog[k].status = "UNRESOLVED"

---------------------------------------------------------------------------
(* C3 -- The check and the create of one candidate are one atomic operation:      *)
(* while an UNRESOLVED record of a (line, type) exists, no step adds another one  *)
(* (the losing insert is a no-op), also when two runs of checkForAnomalies        *)
(* overlap.  Stated for SpecDetOverlap.                                           *)

C3_AtomicCheckAndCreate ==
    [][ \A lineId \in LineItemIds, type \in AnomalyTypes :
            OpenAnomalies(anomalyLog, lineId, type) # {}
            => Cardinality(OpenAnomalies(anomalyLog', lineId, type))
                   <= Cardinality(OpenAnomalies(anomalyLog, lineId, type)) ]_vars

---------------------------------------------------------------------------
(* C4 -- Idempotence of aggregation.                                              *)
(* As claimed (stated for SpecQuiet, where nothing is deposited once a run has    *)
(* started): after an invocation that returned normally, no later step changes a  *)
(* UsageStatistics record or a processed flag.                                    *)

StoreUnchanged == lineItemUsage' = lineItemUsage /\ rawEventLog' = rawEventLog

C4_SecondRunNoOp ==
    [][ (\E r \in Runs : agg[r].result \in {"resolved", "noLogs"}) => StoreUnchanged ]_vars

(* C4 as amended: an invocation that starts when no record is unprocessed returns *)
(* at once and changes no UsageStatistics record and no processed flag.           *)

C4_NoUnprocessedNoOp ==
    [][ \A r \in Runs :
            ( /\ agg[r].pc = "idle"
              /\ \A i \in LogIds : rawEventLog[i].isProcessed
              /\ agg'[r] # agg[r] )
            => ( /\ agg'[r].pc = "idle"
                 /\ agg'[r].result = "noLogs"
                 /\ StoreUnchanged ) ]_vars

\* a run has found nothing to do after an earlier run processed a record
C4_Witness ==
    /\ agg[1].pc = "idle"
    /\ agg[1].result = "noLogs"
    /\ \E i \in LogIds : rawEventLog[i].isProcessed

---------------------------------------------------------------------------
(* C5 -- Derived-field consistency: in every UsageStatistics record reachable by  *)
(* a sequence of Aggregator runs, workingHours = totalEngineHours -               *)
(* totalIdleHours, workingToIdleRatio = (totalEngineHours > 0 ? workingHours /    *)
(* totalEngineHours * 100 : 0) and fuelBurnRate = (workingHours > 0 ?             *)
(* fuelConsumed / workingHours : 0), on the values stored in the same record.     *)

C5_DerivedConsistent ==
    \A u \in lineItemUsage :
        /\ u.workingHours = u.totalEngineHours - u.totalIdleHours
        /\ FracEq(u.workingToIdleRatio,
                  IF u.totalEngineHours > 0
                  THEN Frac(u.workingHours * 100, u.totalEngineHours) ELSE Zero)
        /\ FracEq(u.fuelBurnRate,
                  IF u.workingHours > 0
                  THEN Frac(u.fuelConsumed, u.workingHours * 10) ELSE Zero)

\* a record holding a running and an idle tick
C5_Witness ==
    \E u \in lineItemUsage : u.totalEngineHours = 2 /\ u.totalIdleHours = 1

---------------------------------------------------------------------------
(* C6 -- All-or-nothing per equipment group: the step in which a transaction      *)
(* fails leaves every UsageStatistics record and every processed flag as they     *)
(* were, and in no state are the statistics of a line ahead of, or behind, the    *)
(* records marked processed.                                                      *)

C6_AllOrNothing ==
    [][ /\ \A r \in Runs :
              (agg[r].pc \in TxPcs /\ agg'[r].pc = "idle" /\ agg'[r].result = "rejected")
              => StoreUnchanged
        /\ (\A e \in Equipment : StatsMatchProcessed(lineItemUsage, e))' ]_vars

\* a transaction has failed and left its group unprocessed
C6_Witness ==
    /\ agg[1].pc = "idle"
    /\ agg[1].result = "rejected"
    /\ \E i \in LogIds : ~rawEventLog[i].isProcessed

---------------------------------------------------------------------------
(* C7 -- Failure isolation: when the transaction of one group fails, the run      *)
(* goes on with the remaining groups that have an active contract line, so a run  *)
(* never ends inside a transaction while such a group is still to be processed.   *)

HasLineAt(e, t) ==
    \E li \in LineItems : li.equipmentId = e /\ li.startDate <= t /\ t <= li.endDate

C7_FailureIsolation ==
    [][ \A r \in Runs :
            ( /\ agg[r].pc \in TxPcs
              /\ \E e \in agg[r].todo \ {agg[r].equipmentId} : HasLineAt(e, now) )
            => agg'[r].pc # "idle" ]_vars

---------------------------------------------------------------------------
(* C8 -- Skip when no active line: when a run takes up a group whose equipment    *)
(* has no contract line containing `now`, it opens no transaction and changes no  *)
(* processed flag and no UsageStatistics record; a transaction is only ever open  *)
(* for a line of the group's equipment that has started.                          *)

C8_SkipNoActiveLine ==
    [][ /\ \A r \in Runs, e \in Equipment :
              ( /\ agg[r].pc = "loop"
                /\ e \in agg[r].todo
                /\ ~HasLineAt(e, now)
                /\ (e \notin agg'[r].todo \/ agg'[r].equipmentId = e) )
              => (agg'[r].pc \in {"loop", "idle"} /\ StoreUnchanged)
        /\ \A r \in Runs :
              agg'[r].pc \in TxPcs
              => \E li \in LineItems :
                    /\ li.lineItemId = agg'[r].activeLineItem
                    /\ li.equipmentId = agg'[r].equipmentId
                    /\ li.startDate <= now' ]_vars

\* a run has returned normally at hour 0 leaving a record unprocessed and no statistics
C8_Witness ==
    /\ agg[1].pc = "idle"
    /\ agg[1].result = "resolved"
    /\ now = 0
    /\ lineItemUsage = {}
    /\ \E i \in LogIds : ~rawEventLog[i].isProcessed /\ rawEventLog[i].equipmentId = "e2"

---------------------------------------------------------------------------
(* C9 -- The processed flag is false at creation, never goes back to false, and   *)
(* goes to true only in the commit of an Aggregator transaction that fetched the  *)
(* record in its group and adds the contributions of the records it marks to the  *)
(* UsageStatistics of its line.                                                   *)

Flipped == { i \in LogIds : ~rawEventLog[i].isProcessed /\ rawEventLog'[i].isProcessed }

RowTotal(table, lineId, f) == SumRows({ u \in table : u.lineItemId = lineId }, f)

C9_ProcessedFlag ==
    [][ /\ \A i \in DOMAIN rawEventLog' \ DOMAIN rawEventLog : ~rawEventLog'[i].isProcessed
        /\ \A i \in DOMAIN rawEventLog :
              /\ i \in DOMAIN rawEventLog'
              /\ rawEventLog[i].isProcessed => rawEventLog'[i].isProcessed
        /\ Flipped # {} =>
              \E r \in Runs :
                 /\ agg[r].pc = "txMark"
                 /\ Flipped \subseteq GroupLogs(r, agg[r].equipmentId)
                 /\ RowTotal(lineItemUsage', agg[r].activeLineItem, "totalEngineHours")
                       = RowTotal(lineItemUsage, agg[r].activeLineItem, "totalEngineHours")
                         + StatusCount(Flipped, {"RUNNING", "IDLE"})
                 /\ RowTotal(lineItemUsage', agg[r].activeLineItem, "totalIdleHours")
                       = RowTotal(lineItemUsage, agg[r].activeLineItem, "totalIdleHours")
                         + StatusCount(Flipped, {"IDLE"})
                 /\ RowTotal(lineItemUsage', agg[r].activeLineItem, "payloadMovedTonnes")
                       = RowTotal(lineItemUsage, agg[r].activeLineItem, "payloadMovedTonnes")
                         + SumLogs(CycleLogs(Flipped), "payloadTonnes") ]_vars

\* one record has been processed while another one is still unprocessed
C9_Witness ==
    \E i, j \in LogIds : rawEventLog[i].isProcessed /\ ~rawEventLog[j].isProcessed

---------------------------------------------------------------------------
(* C10 -- At most one UsageStatistics record per contract line; a record appears  *)
(* or changes only in the commit of an Aggregator transaction for its line, and   *)
(* no step of either job removes the record of a line.  Stated for SpecDetect.    *)

RowsOf(table, lineId) == { u \in table : u.lineItemId = lineId }

C10_OneUsagePerLine ==
    [][ /\ \A u \in lineItemUsage' : u.lineItemId \in LineItemIds
        /\ \A lineId \in LineItemIds :
              /\ Cardinality(RowsOf(lineItemUsage', lineId)) <= 1
              /\ RowsOf(lineItemUsage, lineId) # {} => RowsOf(lineItemUsage', lineId) # {}
              /\ RowsOf(lineItemUsage', lineId) # RowsOf(lineItemUsage, lineId)
                 => \E r \in Runs : /\ agg[r].pc = "txMark"
                                    /\ agg[r].activeLineItem = lineId
                                    /\ agg'[r].pc # "txMark" ]_vars

\* L1's record holds two records' worth of hours and the Detector has raised an anomaly
C10_Witness ==
    /\ \E u \in lineItemUsage : u.lineItemId = "L1" /\ u.totalEngineHours = 2
    /\ Len(anomalyLog) > 0
    /\ agg[1].pc = "idle"

---------------------------------------------------------------------------
(* C11 -- SUDDEN_FUEL_DROP: on the window a run reads, a SUDDEN_FUEL_DROP          *)
(* candidate (severity HIGH) is raised if and only if two FUEL_LEVEL readings      *)
(* adjacent in time drop by more than 15, and its details are fromLevel and        *)
(* toLevel of the first such pair.  Stated for SpecWindow.                         *)

\* the records the window query of run d returns
WindowOf(d) ==
    { i \in LogIds : /\ rawEventLog[i].equipmentId = det[d].item.equipmentId
                     /\ rawEventLog[i].timestamp >= det[d].oneHourAgo }

\* the step in which run d reads its window and applies the five rules to it
ReadsWindow(d) == det[d].pc = "recent" /\ det'[d] # det[d]

\* the candidates of the given type that step raises
RaisedByWindow(d, type) ==
    IF det'[d].pc = "find" /\ det'[d].phase = "window" /\ det'[d].item = det[d].item
    THEN { k \in DOMAIN det'[d].cands : det'[d].cands[k].anomalyType = type }
    ELSE {}

FuelReadings(W) == { i \in W : rawEventLog[i].eventType = "FUEL_LEVEL" }

\* j and k are adjacent fuel readings (records are stored in order of time) and
\* the level falls by more than 15 from j to k
AdjacentDrop(F, j, k) ==
    /\ j < k
    /\ \A m \in F : ~(j < m /\ m < k)
    /\ rawEventLog[j].value.level - rawEventLog[k].value.level > 15

C11_SuddenFuelDrop ==
    [][ ReadsWindow(1) =>
          LET F == FuelReadings(WindowOf(1))
              drops == { p \in F \X F : AdjacentDrop(F, p[1], p[2]) }
              raised == RaisedByWindow(1, "SUDDEN_FUEL_DROP")
          IN  /\ (raised # {}) <=> (drops # {})
              /\ Cardinality(raised) <= 1
              /\ \A k \in raised :
                    \E p \in drops :
                       /\ \A q \in drops : p[1] <= q[1]
                       /\ det'[1].cands[k].severity = "HIGH"
                       /\ det'[1].cands[k].details =
                             [fromLevel |-> rawEventLog[p[1]].value.level,
                              toLevel |-> rawEventLog[p[2]].value.level] ]_vars

\* readings 100, 80, 60: the anomaly recorded is the first drop, 100 -> 80
C11_Witness ==
    /\ \E i \in LogIds : i + 2 \in LogIds
          /\ rawEventLog[i].value = [level |-> 100]
          /\ rawEventLog[i + 1].value = [level |-> 80]
          /\ rawEventLog[i + 2].value = [level |-> 60]
    /\ \E k \in DOMAIN anomalyLog :
          /\ anomalyLog[k].anomalyType = "SUDDEN_FUEL_DROP"
          /\ anomalyLog[k].details = [fromLevel |-> 100, toLevel |-> 80]

---------------------------------------------------------------------------
(* C12 -- POOR_WORKING_TO_IDLE_RATIO: when a run takes up a contract line, the     *)
(* rule raises a candidate (severity MEDIUM) if and only if the line's             *)
(* workingToIdleRatio is below 50 and its totalEngineHours above 10; with 10 hours *)
(* or fewer it does not fire whatever the ratio.  Stated for SpecUsageRules.       *)

\* the step in which run d takes the next line and applies the usage rules to it
TakesItem(d) ==
    /\ det'[d].pc # "idle"
    /\ (det[d].pc = "idle" \/ det'[d].items # det[d].items)

C12_PoorRatio ==
    [][ TakesItem(1) =>
          LET u == det'[1].item.usage
              raised == { k \in DOMAIN det'[1].cands :
                             det'[1].cands[k].anomalyType = "POOR_WORKING_TO_IDLE_RATIO" }
          IN  /\ (raised # {}) <=>
                    ( /\ u.workingToIdleRatio.n < 50 * u.workingToIdleRatio.d
                      /\ u.totalEngineHours > 100 )
              /\ \A k \in raised : det'[1].cands[k].severity = "MEDIUM" ]_vars

\* the anomaly has been recorded for the row with 11 engine hours and ratio 45.5
C12_Witness ==
    /\ UsageSample("L1", 110, 60, 0) \in lineItemUsage
    /\ \E k \in DOMAIN anomalyLog :
          /\ anomalyLog[k].anomalyType = "POOR_WORKING_TO_IDLE_RATIO"
          /\ anomalyLog[k].lineItemId = "L1"
          /\ anomalyLog[k].severity = "MEDIUM"

---------------------------------------------------------------------------
(* C13 -- GEOFENCE_BREACH is decided on the most recent LOCATION_UPDATE of the     *)
(* window: a GEOFENCE_BREACH candidate (severity HIGH) is raised if and only if    *)
(* the LOCATION_UPDATE with the greatest timestamp lies farther than the radius    *)
(* from the site center.  Stated for SpecWindow.                                   *)

Locations(W) == { i \in W : rawEventLog[i].eventType = "LOCATION_UPDATE" }

\* the record of S with the greatest timestamp, when one record has it alone
IsLatest(S, i) ==
    i \in S /\ \A j \in S \ {i} : rawEventLog[j].timestamp < rawEventLog[i].timestamp

C13_GeofenceMostRecent ==
    [][ ReadsWindow(1) =>
          LET locs == Locations(WindowOf(1))
              raised == RaisedByWindow(1, "GEOFENCE_BREACH")
          IN  /\ locs = {} => raised = {}
              /\ \A i \in locs :
                    IsLatest(locs, i) =>
                       ((raised # {}) <=> OutsideGeofence(rawEventLog[i].value))
              /\ \A k \in raised : det'[1].cands[k].severity = "HIGH" ]_vars

---------------------------------------------------------------------------
(* C14 -- avgCycleTimeSeconds is cumulative: in every UsageStatistics record it    *)
(* equals the sum of cycleTimeSeconds over all PAYLOAD_CYCLE records accumulated   *)
(* for the line divided by their number, and 0 when there are none.                *)

C14_AvgCycleTimeCumulative ==
    \A e \in Equipment :
        \A u \in { x \in lineItemUsage : x.lineItemId \in LinesOf(e) } :
            LET cycles == CycleLogs(ProcessedOf(e))
            IN  FracEq(u.avgCycleTimeSeconds,
                       IF cycles = {} THEN Zero
                       ELSE Frac(SumLogs(cycles, "cycleTimeSeconds"), Cardinality(cycles)))

---------------------------------------------------------------------------
(* C15 -- Merge is simple addition: whenever the UsageStatistics record of a line  *)
(* is created or updated, totalEngineHours, totalIdleHours and payloadMovedTonnes  *)
(* equal their previous stored values (0 for a new record) plus the contributions  *)
(* of the records the transaction marks, and fuelConsumed equals the previous      *)
(* stored fuelConsumed plus 5.5 times the engine hours added.                      *)

---------------------------------------------------------------------------
(* C16 -- Deduplication looks only at UNRESOLVED records: when a run evaluates a   *)
(* candidate for a (line, type) with no UNRESOLVED record, it creates exactly one  *)
(* new UNRESOLVED record of that line and type, RESOLVED records of the same kind  *)
(* notwithstanding; with an UNRESOLVED record present it creates none.  Stated     *)
(* for SpecUsageRules.                                                             *)

C16_DedupOnlyUnresolved ==
    [][ LET lineId == det[1].item.lineItemId
            type == Head(det[1].cands).anomalyType
        IN  /\ (det[1].pc = "find" /\ det'[1] # det[1]) =>
                  /\ anomalyLog' = anomalyLog
                  /\ (det'[1].pc = "create" /\ det'[1].item = det[1].item
                          /\ det'[1].cands = det[1].cands)
                     <=> (OpenAnomalies(anomalyLog, lineId, type) = {})
            /\ (det[1].pc = "create" /\ det'[1] # det[1]) =>
                  /\ OpenAnomalies(anomalyLog, lineId, type) = {}
                  /\ Len(anomalyLog') = Len(anomalyLog) + 1
                  /\ SubSeq(anomalyLog', 1, Len(anomalyLog)) = anomalyLog
                  /\ anomalyLog'[Len(anomalyLog')].lineItemId = lineId
                  /\ anomalyLog'[Len(anomalyLog')].anomalyType = type
                  /\ anomalyLog'[Len(anomalyLog')].status = "UNRESOLVED"
            /\ Len(anomalyLog') > Len(anomalyLog) => det[1].pc = "create" ]_vars

\* a rule that fired again after its anomaly was resolved: the run is about to
\* create the second record of the kind
C16_Witness ==
    /\ det[1].pc = "create"
    /\ \E k \in DOMAIN anomalyLog :
          /\ anomalyLog[k].lineItemId = det[1].item.lineItemId
          /\ anomalyLog[k].anomalyType = Head(det[1].cands).anomalyType
          /\ anomalyLog[k].status = "RESOLVED"

---------------------------------------------------------------------------
(* C17 -- The Detector only evaluates contract lines that are active and have a    *)
(* UsageStatistics record when the run fetches its lines: the fetch yields only    *)
(* such lines, the run never takes up a line it did not fetch, and every anomaly   *)
(* record is created for the line the run has in hand.  Stated for                 *)
(* SpecUsageRules.                                                                 *)

\* the lines run d still has to evaluate, the one in hand included
LinesInHand(st) ==
    IF st.pc = "idle" THEN {}
    ELSE { it.lineItemId : it \in st.items } \cup {st.item.lineItemId}

C17_OnlyActiveLinesWithUsage ==
    [][ /\ (det[1].pc = "idle" /\ det'[1].pc # "idle") =>
              \A lineId \in LinesInHand(det'[1]) :
                 /\ \E li \in LineItems :
                       li.lineItemId = lineId /\ li.startDate <= now /\ now <= li.endDate
                 /\ \E u \in lineItemUsage : u.lineItemId = lineId
        /\ det[1].pc # "idle" => LinesInHand(det'[1]) \subseteq LinesInHand(det[1])
        /\ Len(anomalyLog') > Len(anomalyLog) =>
              /\ det[1].pc # "idle"
              /\ anomalyLog'[Len(anomalyLog')].lineItemId = det[1].item.lineItemId ]_vars

\* at hour 1 a run has recorded an anomaly for L1 and none for L2, which has no
\* usage record
C17_Witness ==
    /\ det[1].pc = "idle"
    /\ \E k \in DOMAIN anomalyLog : anomalyLog[k].lineItemId = "L1"
    /\ \A u \in lineItemUsage : u.lineItemId # "L2"
    /\ \E i \in LogIds : rawEventLog[i].equipmentId = "e2" /\ rawEventLog[i].timestamp = 1

---------------------------------------------------------------------------
(* C18 -- Frame of the Detector: a step of checkForAnomalies changes nothing but   *)
(* the anomaly table, and there it only appends: every UsageStatistics record,     *)
(* every telemetry record and every existing anomaly record stays as it was, also  *)
(* when a rule that fired earlier no longer fires.  Stated for SpecDetect.         *)

C18_DetectorFrame ==
    [][ det'[1] # det[1] =>
          /\ lineItemUsage' = lineItemUsage
          /\ rawEventLog' = rawEventLog
          /\ Len(anomalyLog') >= Len(anomalyLog)
          /\ SubSeq(anomalyLog', 1, Len(anomalyLog)) = anomalyLog ]_vars

\* a run has started while the SLOW_CYCLE_TIME anomaly of L1 is open and L1's
\* average cycle time is back to 0, so that the rule no longer fires
C18_Witness ==
    /\ det[1].pc # "idle"
    /\ det[1].item.lineItemId = "L1"
    /\ det[1].item.usage.avgCycleTimeSeconds = Zero
    /\ \E k \in DOMAIN anomalyLog :
          /\ anomalyLog[k].lineItemId = "L1"
          /\ anomalyLog[k].anomalyType = "SLOW_CYCLE_TIME"
          /\ anomalyLog[k].status = "UNRESOLVED"

---------------------------------------------------------------------------
(* C19 -- Eventual processing: under repeated invocation of the Aggregator and     *)
(* store transactions that eventually succeed, every unprocessed telemetry record  *)
(* whose equipment has an active contract line is eventually marked processed,     *)
(* unless the line stops being active first.  Stated for SpecLive.                 *)

HasActiveLine(i) == i \in LogIds /\ HasLineAt(rawEventLog[i].equipmentId, now)

C19_EventuallyProcessed ==
    \A i \in 1..MaxLogs :
        (HasActiveLine(i) /\ ~rawEventLog[i].isProcessed)
            ~> (i \in LogIds /\ (rawEventLog[i].isProcessed \/ ~HasActiveLine(i)))

\* a record for e2 deposited at hour 0, before L2 starts, has been processed
C19_Witness ==
    \E i \in LogIds :
        /\ rawEventLog[i].equipmentId = "e2"
        /\ rawEventLog[i].timestamp = 0
        /\ rawEventLog[i].isProcessed

---------------------------------------------------------------------------
(* C20 -- A PAYLOAD_CYCLE record lacking payloadTonnes or cycleTimeSeconds does    *)
(* not corrupt its group: it is left out of the fold of the metric it lacks, the   *)
(* other records are accumulated normally, and the cumulative payloadMovedTonnes   *)
(* of every line stays a number, the sum of payloadTonnes over the processed       *)
(* records that carry one.  Stated for SpecMalformed.                              *)

C20_MalformedExcluded ==
    \A e \in Equipment :
        LET rows == { u \in lineItemUsage : u.lineItemId \in LinesOf(e) }
        IN  /\ \A u \in rows : ~IsNaN(u.payloadMovedTonnes)
            /\ SumRows(rows, "payloadMovedTonnes")
                   = SumLogs(CycleLogs(ProcessedOf(e)), "payloadTonnes")

---------------------------------------------------------------------------
(* C21 -- Batch delta: for the batch of one equipment's records a run folds, the   *)
(* engine-hours delta is one tenth per ENGINE_STATUS record with status RUNNING or *)
(* IDLE, the idle-hours delta one tenth per record with status IDLE, the payload   *)
(* and cycle-time deltas are the sums of payloadTonnes and cycleTimeSeconds over   *)
(* the PAYLOAD_CYCLE records and the cycle-count delta is their number; records    *)
(* with status OFF, FUEL_LEVEL readings and records of other kinds change no       *)
(* delta.  Stated for SpecBatch.                                                   *)

EngineStatusLogs(ids, statuses) ==
    { i \in ids : /\ rawEventLog[i].eventType = "ENGINE_STATUS"
                  /\ rawEventLog[i].value.status \in statuses }

\* records that are neither PAYLOAD_CYCLE nor ENGINE_STATUS with RUNNING or IDLE
Inert(ids) == (ids \ CycleLogs(ids)) \ EngineStatusLogs(ids, {"RUNNING", "IDLE"})

C21_BatchDelta ==
    agg[1].pc \in TxPcs =>
        LET G == GroupLogs(1, agg[1].equipmentId)
            batch == BatchOf(1)
        IN  /\ batch.totalEngineHours = Cardinality(EngineStatusLogs(G, {"RUNNING", "IDLE"}))
            /\ batch.totalIdleHours = Cardinality(EngineStatusLogs(G, {"IDLE"}))
            /\ batch.payloadMovedTonnes = SumLogs(CycleLogs(G), "payloadTonnes")
            /\ batch.totalCycleTimeSeconds = SumLogs(CycleLogs(G), "cycleTimeSeconds")
            /\ batch.cycleCount = Cardinality(CycleLogs(G))
            /\ batch = BatchMetrics(G \ Inert(G))

\* a run folding an IDLE record, an OFF record and a FUEL_LEVEL reading of e1
C21_Witness ==
    /\ agg[1].pc = "txUpsert"
    /\ LET G == GroupLogs(1, agg[1].equipmentId)
       IN  /\ Cardinality(G) = 3
           /\ Cardinality(EngineStatusLogs(G, {"IDLE"})) = 1
           /\ Cardinality(EngineStatusLogs(G, {"OFF"})) = 1
           /\ \E i \in G : rawEventLog[i].eventType = "FUEL_LEVEL"
           /\ BatchOf(1).totalEngineHours = 1

---------------------------------------------------------------------------
(* C22 -- In every state of the UsageStatistics records reached by runs of the     *)
(* Aggregator, 0 <= totalIdleHours <= totalEngineHours, workingHours >= 0 and      *)
(* 0 <= workingToIdleRatio <= 100, and no step lowers totalEngineHours,            *)
(* totalIdleHours, fuelConsumed or payloadMovedTonnes of a line.  Stated for       *)
(* SpecBatch, one invocation at a time.                                            *)

UsageInRange(u) ==
    /\ 0 <= u.totalIdleHours
    /\ u.totalIdleHours <= u.totalEngineHours
    /\ u.workingHours >= 0
    /\ ~FracLt(u.workingToIdleRatio, Zero)
    /\ ~FracLt(Frac(100, 1), u.workingToIdleRatio)

NotLowered(u, v) ==
    /\ u.totalEngineHours <= v.totalEngineHours
    /\ u.totalIdleHours <= v.totalIdleHours
    /\ u.fuelConsumed <= v.fuelConsumed
    /\ u.payloadMovedTonnes <= v.payloadMovedTonnes

C22_RangesAndMonotone ==
    [][ /\ \A v \in lineItemUsage' : UsageInRange(v)
        /\ \A u \in lineItemUsage :
               \E v \in lineItemUsage' : v.lineItemId = u.lineItemId /\ NotLowered(u, v) ]_vars

\* a second run about to commit its update of a record that an earlier run created
C22_Witness ==
    /\ agg[1].pc = "txMark"
    /\ agg[1].written.old # {}
    /\ agg[1].written.new.totalEngineHours = 2
    /\ agg[1].written.new.totalIdleHours = 1
    /\ \E u \in agg[1].written.old : u.totalEngineHours = 1

---------------------------------------------------------------------------
(* C23 -- Records deposited while a run of the Aggregator is in progress, after    *)
(* its fetch, are never marked processed by that run: a step of a run leaves the   *)
(* flag of every record outside its fetch as it was, and the step that commits a   *)
(* group marks exactly the fetched records of that group, whose contributions it   *)
(* adds to the record of the line.  Stated for Spec: the Event Source deposits     *)
(* at any point of a run, one invocation of the Aggregator at a time.              *)

\* run r leaves its transaction by the commit: on to the next group, or done
Commits(r) ==
    /\ agg[r].pc = "txMark"
    /\ \/ agg'[r].pc = "loop"
       \/ agg'[r].pc = "idle" /\ agg'[r].result = "resolved"

C23_LateRecordsNotMarked ==
    [][ \A r \in Runs :
           (agg[r].pc # "idle" /\ agg'[r] # agg[r]) =>
              LET G == GroupLogs(r, agg[r].equipmentId)
                  lineId == agg[r].activeLineItem
              IN  /\ \A i \in LogIds \ agg[r].logs :
                        rawEventLog'[i].isProcessed = rawEventLog[i].isProcessed
                  /\ Flipped # {} => Commits(r)
                  /\ Commits(r) =>
                        /\ Flipped = G
                        /\ RowTotal(lineItemUsage', lineId, "totalEngineHours")
                              = RowTotal(lineItemUsage, lineId, "totalEngineHours")
                                + Cardinality(EngineStatusLogs(G, {"RUNNING", "IDLE"}))
                        /\ RowTotal(lineItemUsage', lineId, "payloadMovedTonnes")
                              = RowTotal(lineItemUsage, lineId, "payloadMovedTonnes")
                                + SumLogs(CycleLogs(G), "payloadTonnes") ]_vars

\* a run about to commit a group of an equipment for which a record has been
\* deposited since its fetch
C23_Witness ==
    /\ agg[1].pc = "txMark"
    /\ \E j \in LogIds \ agg[1].logs :
          /\ rawEventLog[j].equipmentId = agg[1].equipmentId
          /\ ~rawEventLog[j].isProcessed

=============================================================================
